---- MODULE Spec2Model ----
(***************************************************************************)
(* The /solve handler of backend/server.py (solve_meal_plan): the binary  *)
(* meal-assignment program it builds (variables x[(d, m, id)], objective,  *)
(* constraints), the three-tier relaxation (prob, prob2, prob3) and the    *)
(* extraction of the schedule.  The solver behind prob.solve() is a        *)
(* library: it is modelled by the outcomes a call can have.                *)
(*                                                                         *)
(* Numbers: the code computes in Python floats; every quantity, amount and *)
(* weight drawn here is an integer small enough for float arithmetic to be *)
(* exact, so they are modelled as integers.  A days_until_expiry value is  *)
(* a JSON value: Num(h) is the number h/2 (held in halves, so that it may  *)
(* be fractional), Str(s) a string that float() rejects.                   *)
(***************************************************************************)
EXTENDS Integers, Sequences, FiniteSets, TLC

VARIABLES
    data_days,     \* data['days'] of the request, never written
    inventory,     \* data['inventory']: item_name -> item_data (a dict)
    recipes,       \* data['recipes']: sequence of [id, ingredients]
    days,          \* the local days (line 54); overwritten at line 340
    meals,         \* data['meals']: sequence of meal types
    solver,        \* which solver stands behind prob.solve(): "contract" | "exact"
    pc,            \* position in solve_meal_plan
    status_code,   \* LpStatus[...] of the attempt that counts (lines 203, 259, 339)
    x,             \* value(x[(d, m, id)]) after the last successful solve
    reduced_days,  \* loop variable of line 267
    solves,        \* the solve() calls made so far: <<problem, horizon, result>>
    response       \* what the handler returned (jsonify(...)), or NoResponse

vars == <<data_days, inventory, recipes, days, meals, solver, pc, status_code, x,
          reduced_days, solves, response>>

(***************************************************************************)
(* Bounds of the model.                                                    *)
(***************************************************************************)
MaxDays == 3
MaxMeals == 2
MaxRecipes == 2
MaxVars == 8

\* base_slot_fill_bonus = 10000.0 (line 101); the factor 100.0 of line 121
base_slot_fill_bonus == 10000
recipe_value_scale == 100

MealTypes == <<"Breakfast", "Lunch", "Dinner", "Snack">>

Min(a, b) == IF a <= b THEN a ELSE b

\* sum of f[e] over the elements e of S
RECURSIVE SumF(_, _)
SumF(f, S) ==
    IF S = {} THEN 0
    ELSE LET e == CHOOSE e \in S : TRUE
         IN  f[e] + SumF(f, S \ {e})

Range(s) == {s[i] : i \in DOMAIN s}

(***************************************************************************)
(* Python conversions.                                                     *)
(***************************************************************************)
\* JSON values of days_until_expiry
Num(h) == [halves |-> h]
Str(s) == [text |-> s]

\* int(round(x)) for x = h/2: Python 3 rounds halves to even
PyIntRound(h) ==
    IF h % 2 = 0 THEN h \div 2
    ELSE LET lo == (h - 1) \div 2
         IN  IF lo % 2 = 0 THEN lo ELSE lo + 1

\* float(raw) raises ValueError for a string that is no number
IsNumber(raw) == "halves" \in DOMAIN raw

(***************************************************************************)
(* The program the handler builds.                                         *)
(***************************************************************************)
MealSet == Range(meals)
RecipeIds == {recipes[i].id : i \in DOMAIN recipes}
RecipeOf(id) == recipes[CHOOSE i \in DOMAIN recipes : recipes[i].id = id]

\* keys of x for a horizon of h days (lines 91-94)
Keys(h) == (0 .. h - 1) \X MealSet \X RecipeIds

\* r.get('ingredients', {}).get(item_name, 0.0)
AmountOf(r, item_name) ==
    IF item_name \in DOMAIN r.ingredients THEN r.ingredients[item_name] ELSE 0

\* item_data.get('expiry_weight', 1.0)
ExpiryWeightOf(item_data) ==
    IF "expiry_weight" \in DOMAIN item_data THEN item_data.expiry_weight ELSE 1

\* item_data.get('qty', 0.0)
AvailableQty(item_data) ==
    IF "qty" \in DOMAIN item_data THEN item_data.qty ELSE 0

\* lines 108-117: sum of expiry_weight * amount over the ingredients in inventory
recipe_value(r) ==
    LET used == DOMAIN r.ingredients \cap DOMAIN inventory
    IN  SumF([i \in used |-> ExpiryWeightOf(inventory[i]) * r.ingredients[i]], used)

\* a bug: the day priority grows with the day index
Weight_LateDaysFirst(h, d, id) ==
    recipe_value(RecipeOf(id)) * recipe_value_scale
        + base_slot_fill_bonus * ((d + 1) * (d + 1))

\* a bug: the slot bonus is left out of the objective term
Weight_NoSlotBonus(h, d, id) ==
    recipe_value(RecipeOf(id)) * recipe_value_scale

\* lines 121-128: the coefficient of x[(d, m, id)] for a horizon of h days
Weight(h, d, id) ==
    recipe_value(RecipeOf(id)) * recipe_value_scale
        + base_slot_fill_bonus * ((h - d + 1) * (h - d + 1))

\* the 0/1 assignments to the variables of a horizon of h days (cat='Binary')
Assignments(h) == [Keys(h) -> {0, 1}]

\* the objective of prob and prob2 (objective_terms, lines 98-130) and, with
\* h = reduced_days, of prob3 (reduced_objective_terms, lines 270-289)
Objective(h, a) ==
    SumF([k \in Keys(h) |-> Weight(h, k[1], k[3]) * a[k]], Keys(h))

\* Constraint 1 (lines 134-136, 213-215, 292-294): each slot at most one recipe
AtMostOneRecipePerMeal(h, a) ==
    \A d \in 0 .. h - 1 : \A m \in MealSet :
        SumF([id \in RecipeIds |-> a[<<d, m, id>>]], RecipeIds) <= 1

\* a bug: the recipe is limited to one slot per meal type over the days
NoDuplicateRecipe_PerMeal(h, a) ==
    \A m \in MealSet : \A id \in RecipeIds :
        SumF([d \in 0 .. h - 1 |-> a[<<d, m, id>>]], 0 .. h - 1) <= h

\* Constraint 1b (lines 139-142, 217-219, 296-298): a recipe at most once a day
NoDuplicateRecipe(h, a) ==
    \A d \in 0 .. h - 1 : \A id \in RecipeIds :
        SumF([m \in MealSet |-> a[<<d, m, id>>]], MealSet) <= 1

\* total_usage of an item (lines 153-158, 228-233, 306-311)
total_usage(h, a, item_name) ==
    SumF([k \in Keys(h) |-> AmountOf(RecipeOf(k[3]), item_name) * a[k]], Keys(h))

\* a bug: the limit is applied to each day's usage, not to the total
InventoryLimit_PerDay(h, a) ==
    \A item_name \in DOMAIN inventory : \A d \in 0 .. h - 1 :
        LET today == {k \in Keys(h) : k[1] = d}
        IN  SumF([k \in today |-> AmountOf(RecipeOf(k[3]), item_name) * a[k]], today)
                <= AvailableQty(inventory[item_name])

\* a bug: the usage must stay strictly below the quantity
InventoryLimit_Strict(h, a) ==
    \A item_name \in DOMAIN inventory :
        total_usage(h, a, item_name) < AvailableQty(inventory[item_name])

\* Constraint 2 (lines 145-160, 222-234, 300-312)
InventoryLimit(h, a) ==
    \A item_name \in DOMAIN inventory :
        total_usage(h, a, item_name) <= AvailableQty(inventory[item_name])

\* a bug: the day the item expires on is still allowed
ExpiredDays_OffByOne(h, item_data) ==
    IF "days_until_expiry" \notin DOMAIN item_data THEN {}
    ELSE IF ~IsNumber(item_data.days_until_expiry) THEN {}
    ELSE LET days_until_expiry == PyIntRound(item_data.days_until_expiry.halves)
         IN  IF days_until_expiry <= 0 THEN 0 .. h - 1
             ELSE IF days_until_expiry < h THEN days_until_expiry + 1 .. h - 1
             ELSE {}

\* the days on which recipes naming the item are forced to 0 (lines 171-185):
\* all of them when days_until_expiry <= 0, those from days_until_expiry on
\* when it is < h, none otherwise or when the value is malformed (line 186)
ExpiredDays(h, item_data) ==
    IF "days_until_expiry" \notin DOMAIN item_data THEN {}
    ELSE IF ~IsNumber(item_data.days_until_expiry) THEN {}
    ELSE LET days_until_expiry == PyIntRound(item_data.days_until_expiry.halves)
         IN  IF days_until_expiry <= 0 THEN 0 .. h - 1
             ELSE IF days_until_expiry < h THEN days_until_expiry .. h - 1
             ELSE {}

\* Constraint 2b (lines 165-189, 237-255, 315-333)
ExpiredItem(h, a) ==
    \A item_name \in DOMAIN inventory :
        \A d \in ExpiredDays(h, inventory[item_name]) :
            \A m \in MealSet : \A id \in RecipeIds :
                item_name \in DOMAIN RecipeOf(id).ingredients => a[<<d, m, id>>] = 0

\* a bug: the loop stops one day pair early, range(days - 2)
NoConsecutive_SkipLast(h, a) ==
    \A d \in 0 .. h - 3 : \A m \in MealSet : \A id \in RecipeIds :
        a[<<d, m, id>>] + a[<<d + 1, m, id>>] <= 1

\* Constraint 3 (lines 193-197): not the same recipe for the same meal on
\* consecutive days
NoConsecutive(h, a) ==
    \A d \in 0 .. h - 2 : \A m \in MealSet : \A id \in RecipeIds :
        a[<<d, m, id>>] + a[<<d + 1, m, id>>] <= 1

\* prob (lines 87-197)
FullConstraints(a) ==
    /\ AtMostOneRecipePerMeal(days, a)
    /\ NoDuplicateRecipe(days, a)
    /\ InventoryLimit(days, a)
    /\ ExpiredItem(days, a)
    /\ NoConsecutive(days, a)

\* a bug: prob2 takes the "exactly-one" of the comment at line 205 literally
RelaxedConstraints_ExactlyOne(a) ==
    /\ \A d \in 0 .. days - 1 : \A m \in MealSet :
        SumF([id \in RecipeIds |-> a[<<d, m, id>>]], RecipeIds) = 1
    /\ NoDuplicateRecipe(days, a)
    /\ InventoryLimit(days, a)
    /\ ExpiredItem(days, a)

\* prob2 (lines 209-255)
RelaxedConstraints(a) ==
    /\ AtMostOneRecipePerMeal(days, a)
    /\ NoDuplicateRecipe(days, a)
    /\ InventoryLimit(days, a)
    /\ ExpiredItem(days, a)

\* prob3 (lines 268-333)
ReducedConstraints(rd, a) ==
    /\ AtMostOneRecipePerMeal(rd, a)
    /\ NoDuplicateRecipe(rd, a)
    /\ InventoryLimit(rd, a)
    /\ ExpiredItem(rd, a)

FullFeasible == {a \in Assignments(days) : FullConstraints(a)}
RelaxedFeasible == {a \in Assignments(days) : RelaxedConstraints(a)}
ReducedFeasible(rd) == {a \in Assignments(rd) : ReducedConstraints(rd, a)}

\* the assignments of F with the largest objective
Maximizers(h, F) ==
    LET obj == [a \in F |-> Objective(h, a)]
        best == CHOOSE v \in {obj[a] : a \in F} : \A b \in F : obj[b] <= v
    IN  {a \in F : obj[a] = best}

(***************************************************************************)
(* prob.solve(): what a call can answer.  LpStatus[prob.status] is one of  *)
(* "Not Solved", "Optimal", "Infeasible", "Unbounded", "Undefined"; the     *)
(* handler also accepts "Feasible".  The "contract" solver may answer      *)
(* Optimal with a maximizer, Feasible with any assignment that satisfies   *)
(* the constraints, Infeasible when there is none, Not Solved at any time, *)
(* or raise.  The "exact" solver answers Optimal with a maximizer when an  *)
(* assignment exists and Infeasible otherwise, and does not raise.         *)
(***************************************************************************)
Success == {"Optimal", "Feasible"}

Answer(status, values) == [raised |-> FALSE, status |-> status, values |-> values]
Raised == [raised |-> TRUE, status |-> "", values |-> <<>>]

SolverOutcomes(h, F) ==
    LET optimal == IF F = {} THEN {}
                   ELSE {Answer("Optimal", a) : a \in Maximizers(h, F)}
        infeasible == IF F = {} THEN {Answer("Infeasible", <<>>)} ELSE {}
    IN  IF solver = "exact" THEN optimal \cup infeasible
        ELSE optimal \cup infeasible
                \cup {Answer("Feasible", a) : a \in F}
                \cup {Answer("Not Solved", <<>>), Raised}

\* the entry the call leaves in the log of solves
Logged(problem, h, o) == <<problem, h, IF o.raised THEN "raised" ELSE o.status>>

\* the except clause (lines 376-384)
ErrorResponse == [status |-> "Error", message |-> "Server error", code |-> 500]
NoResponse == [status |-> "none"]

(***************************************************************************)
(* Extraction of the schedule (lines 346-364).                             *)
(***************************************************************************)
\* the first recipe in catalog order whose variable is 1 in slot (d, m); 0 if none
FirstMatch(d, m) ==
    LET hits == {i \in DOMAIN recipes : x[<<d, m, recipes[i].id>>] = 1}
    IN  IF hits = {} THEN 0 ELSE CHOOSE i \in hits : \A j \in hits : i <= j

\* day_meals of day d: one entry per meal type that has a match, in meals order
RECURSIVE DayMealsUpTo(_, _)
DayMealsUpTo(d, n) ==
    IF n = 0 THEN <<>>
    ELSE LET i == FirstMatch(d, meals[n])
         IN  IF i = 0 THEN DayMealsUpTo(d, n - 1)
             ELSE Append(DayMealsUpTo(d, n - 1),
                         [type |-> meals[n], recipeId |-> recipes[i].id])

DayMeals(d) == DayMealsUpTo(d, Len(meals))

\* f"Day {d + 1}"
DayLabel(d) == <<"Day", d + 1>>

\* a bug: a day that collected no meal is appended all the same
RECURSIVE ScheduleUpTo_KeepEmptyDays(_)
ScheduleUpTo_KeepEmptyDays(h) ==
    IF h = 0 THEN <<>>
    ELSE Append(ScheduleUpTo_KeepEmptyDays(h - 1),
                [day |-> DayLabel(h - 1), meals |-> DayMeals(h - 1)])

\* the schedule over days 0 .. h-1, empty days left out
RECURSIVE ScheduleUpTo(_)
ScheduleUpTo(h) ==
    IF h = 0 THEN <<>>
    ELSE IF Len(DayMeals(h - 1)) > 0
         THEN Append(ScheduleUpTo(h - 1),
                     [day |-> DayLabel(h - 1), meals |-> DayMeals(h - 1)])
         ELSE ScheduleUpTo(h - 1)

(***************************************************************************)
(* The requests drawn: validated input (lines 58-81: inventory, recipes    *)
(* and meals non-empty, days an integer in 1..7), every item_data a dict,  *)
(* recipe ids and meal types distinct.                                     *)
(***************************************************************************)
NoIngredients == [i \in {} |-> 0]

RecipeBook ==
    { ("eggs" :> 1),
      ("eggs" :> 2) @@ ("milk" :> 100),
      ("milk" :> 100) @@ ("salt" :> 1),
      NoIngredients }

EggsChoices ==
    { [qty |-> 2, expiry_weight |-> 5],
      [qty |-> 1, expiry_weight |-> 5, days_until_expiry |-> Num(2)],
      [qty |-> 2, days_until_expiry |-> Num(3)],
      [qty |-> 2, expiry_weight |-> 5, days_until_expiry |-> Num(0)],
      [qty |-> 2, expiry_weight |-> 5, days_until_expiry |-> Num(1)],
      [qty |-> 2, expiry_weight |-> 5, days_until_expiry |-> Str("soon")],
      [qty |-> -1, expiry_weight |-> 5],
      [expiry_weight |-> 5] }

MilkChoices ==
    { [qty |-> 100, expiry_weight |-> 5],
      [qty |-> 100, expiry_weight |-> 5, days_until_expiry |-> Num(2)] }

\* the egg entries that are drawn together with milk
EggsWithMilk ==
    { [qty |-> 2, expiry_weight |-> 5],
      [qty |-> 2, days_until_expiry |-> Num(3)] }

Inventories ==
    {("eggs" :> e) : e \in EggsChoices}
        \cup {("eggs" :> e) @@ ("milk" :> m) : e \in EggsWithMilk, m \in MilkChoices}

Catalogs ==
    UNION {{[i \in 1 .. n |-> [id |-> i - 1, ingredients |-> b[i]]] :
                b \in [1 .. n -> RecipeBook]} : n \in 1 .. MaxRecipes}

MealLists == {SubSeq(MealTypes, 1, k) : k \in 1 .. Min(MaxMeals, Len(MealTypes))}

Request ==
    /\ inventory \in Inventories
    /\ recipes \in Catalogs
    /\ meals \in MealLists
    /\ data_days \in 1 .. Min(MaxDays, 7)
    /\ days = data_days
    /\ days * Len(meals) * Len(recipes) <= MaxVars
    /\ pc = "full"
    /\ status_code = ""
    /\ x = <<>>
    /\ reduced_days = 0
    /\ solves = <<>>
    /\ response = NoResponse

Init == Request /\ solver = "contract"
InitExact == Request /\ solver = "exact"

(***************************************************************************)
(* The handler, one action per solve() call and one for the response.      *)
(***************************************************************************)
\* lines 199-206: prob.solve()
SolveFull ==
    /\ pc = "full"
    /\ \E o \in SolverOutcomes(days, FullFeasible) :
        /\ solves' = Append(solves, Logged("prob", days, o))
        /\ IF o.raised
           THEN /\ pc' = "done"
                /\ response' = ErrorResponse
                /\ UNCHANGED <<status_code, x>>
           ELSE /\ status_code' = o.status
                /\ x' = IF o.status \in Success THEN o.values ELSE x
                /\ pc' = IF o.status \in Success THEN "extract" ELSE "relaxed"
                /\ UNCHANGED response
    /\ UNCHANGED <<data_days, inventory, recipes, days, meals, solver, reduced_days>>

\* a bug: the loop over reduced_days starts at days, not at days - 1
SolveRelaxed_LoopFromDays ==
    /\ pc = "relaxed"
    /\ \E o \in SolverOutcomes(days, RelaxedFeasible) :
        /\ solves' = Append(solves, Logged("prob2", days, o))
        /\ IF o.raised
           THEN /\ pc' = "done"
                /\ response' = ErrorResponse
                /\ UNCHANGED <<status_code, x, reduced_days>>
           ELSE /\ status_code' = o.status
                /\ x' = IF o.status \in Success THEN o.values ELSE x
                /\ IF o.status \in Success
                   THEN pc' = "extract" /\ UNCHANGED reduced_days
                   ELSE pc' = "shrink" /\ reduced_days' = days
                /\ UNCHANGED response
    /\ UNCHANGED <<data_days, inventory, recipes, days, meals, solver>>

\* lines 257-267: prob2.solve(), then the loop over reduced_days is entered
SolveRelaxed ==
    /\ pc = "relaxed"
    /\ \E o \in SolverOutcomes(days, RelaxedFeasible) :
        /\ solves' = Append(solves, Logged("prob2", days, o))
        /\ IF o.raised
           THEN /\ pc' = "done"
                /\ response' = ErrorResponse
                /\ UNCHANGED <<status_code, x, reduced_days>>
           ELSE /\ status_code' = o.status
                /\ x' = IF o.status \in Success THEN o.values ELSE x
                /\ IF o.status \in Success \/ days - 1 < 1
                   THEN pc' = "extract" /\ UNCHANGED reduced_days
                   ELSE pc' = "shrink" /\ reduced_days' = days - 1
                /\ UNCHANGED response
    /\ UNCHANGED <<data_days, inventory, recipes, days, meals, solver>>

\* a bug: an error raised by prob3.solve() is caught inside the loop, which
\* goes on to the next reduced_days
SolveShrink_SwallowError ==
    /\ pc = "shrink"
    /\ \E o \in SolverOutcomes(reduced_days, ReducedFeasible(reduced_days)) :
        /\ solves' = Append(solves, Logged("prob3", reduced_days, o))
        /\ IF ~o.raised /\ o.status \in Success
           THEN /\ status_code' = o.status
                /\ days' = reduced_days
                /\ x' = o.values
                /\ pc' = "extract"
                /\ UNCHANGED <<reduced_days, response>>
           ELSE /\ IF reduced_days > 1
                   THEN pc' = "shrink" /\ reduced_days' = reduced_days - 1
                   ELSE pc' = "extract" /\ UNCHANGED reduced_days
                /\ UNCHANGED <<status_code, x, days, response>>
    /\ UNCHANGED <<data_days, inventory, recipes, meals, solver>>

\* lines 267-342: one turn of the loop, prob3.solve() for reduced_days
SolveShrink ==
    /\ pc = "shrink"
    /\ \E o \in SolverOutcomes(reduced_days, ReducedFeasible(reduced_days)) :
        /\ solves' = Append(solves, Logged("prob3", reduced_days, o))
        /\ IF o.raised
           THEN /\ pc' = "done"
                /\ response' = ErrorResponse
                /\ UNCHANGED <<status_code, x, days, reduced_days>>
           ELSE IF o.status \in Success
           THEN /\ status_code' = o.status
                /\ days' = reduced_days
                /\ x' = o.values
                /\ pc' = "extract"
                /\ UNCHANGED <<reduced_days, response>>
           ELSE /\ IF reduced_days > 1
                   THEN pc' = "shrink" /\ reduced_days' = reduced_days - 1
                   ELSE pc' = "extract" /\ UNCHANGED reduced_days
                /\ UNCHANGED <<status_code, x, days, response>>
    /\ UNCHANGED <<data_days, inventory, recipes, meals, solver>>

\* lines 344-374: the schedule, or the failure message
Respond ==
    /\ pc = "extract"
    /\ pc' = "done"
    /\ response' =
          IF status_code = "Optimal" \/ status_code = "Feasible"
          THEN [status |-> status_code, schedule |-> ScheduleUpTo(days), code |-> 200]
          ELSE [status |-> status_code, message |-> "No feasible solution found.",
                code |-> 400]
    /\ UNCHANGED <<data_days, inventory, recipes, days, meals, solver, status_code, x,
                   reduced_days, solves>>

Next == SolveFull \/ SolveRelaxed \/ SolveShrink \/ Respond

Spec == Init /\ [][Next]_vars
SpecExact == InitExact /\ [][Next]_vars

(***************************************************************************)
(* What the claims speak of.                                               *)
(***************************************************************************)
\* a schedule was returned
Returned == pc = "done" /\ response.status \in Success

\* the problem whose solve() was the last one called
LastProblem == solves[Len(solves)][1]

\* the meal entries of the returned schedule, as positions <<entry, meal>>
Entries ==
    {p \in (1 .. Len(response.schedule)) \X (1 .. Len(meals)) :
        p[2] <= Len(response.schedule[p[1]].meals)}

EntryRecipe(p) == RecipeOf(response.schedule[p[1]].meals[p[2]].recipeId)

\* the day index of an entry, read back from its label
EntryDay(p) == response.schedule[p[1]].day[2] - 1

\* the amount of an item the whole schedule requires
ScheduleUsage(item_name) ==
    SumF([p \in Entries |-> AmountOf(EntryRecipe(p), item_name)], Entries)

\* C1: in every returned schedule, from whichever tier, the amounts of an
\* inventory item required by the recipes of all meal entries sum to at most
\* the item's quantity.
C1_CapacityRespected ==
    Returned =>
        \A item_name \in DOMAIN inventory :
            ScheduleUsage(item_name) <= AvailableQty(inventory[item_name])

\* a schedule returned by the shrinking tier that uses up a stocked item
C1_Witness ==
    /\ Returned
    /\ LastProblem = "prob3"
    /\ \E item_name \in DOMAIN inventory :
        /\ AvailableQty(inventory[item_name]) > 0
        /\ ScheduleUsage(item_name) = AvailableQty(inventory[item_name])

\* C2: in every returned schedule, an item whose days_until_expiry is k is
\* named by no scheduled recipe at all when k <= 0, and by none on a day
\* index >= k when k > 0.
C2_ExpiryRespected ==
    Returned =>
        \A item_name \in DOMAIN inventory :
            LET item_data == inventory[item_name]
            IN  ("days_until_expiry" \in DOMAIN item_data
                    /\ IsNumber(item_data.days_until_expiry)) =>
                \A p \in Entries :
                    item_name \in DOMAIN EntryRecipe(p).ingredients =>
                        /\ item_data.days_until_expiry.halves > 0
                        /\ 2 * EntryDay(p) < item_data.days_until_expiry.halves

\* a schedule that uses an item on the last day before it expires and leaves a
\* later day without it
C2_Witness ==
    /\ Returned
    /\ days >= 2
    /\ \E item_name \in DOMAIN inventory :
        /\ "days_until_expiry" \in DOMAIN inventory[item_name]
        /\ inventory[item_name].days_until_expiry = Num(2)
        /\ AvailableQty(inventory[item_name]) >= 1
        /\ \E p \in Entries :
            /\ item_name \in DOMAIN EntryRecipe(p).ingredients
            /\ EntryDay(p) = 0

\* C3: in every returned schedule no two meal entries of one day carry the
\* same recipeId.
C3_NoDuplicatePerDay ==
    Returned =>
        \A p \in Entries : \A q \in Entries :
            (p[1] = q[1] /\ p[2] # q[2]) =>
                response.schedule[p[1]].meals[p[2]].recipeId
                    # response.schedule[q[1]].meals[q[2]].recipeId

\* a returned schedule with a day of two meals, necessarily of two recipes
C3_Witness ==
    /\ Returned
    /\ \E i \in 1 .. Len(response.schedule) : Len(response.schedule[i].meals) = 2

\* the i-th solve() of a request for D days: prob and prob2 over D days, then
\* prob3 over D-1, D-2, ..., 1 days
ExpectedAttempt(i, D) ==
    IF i = 1 THEN <<"prob", D>>
    ELSE IF i = 2 THEN <<"prob2", D>>
    ELSE <<"prob3", D - (i - 2)>>

LastResult == solves[Len(solves)][3]

\* C4: the solves are made in the order Full, Relaxed, Shrinking over
\* days-1 .. 1; one is made only after every earlier one answered a status
\* other than Optimal/Feasible; the first Optimal/Feasible answer ends them,
\* is the status of the response, and the schedule holds no day index at or
\* past that attempt's horizon.
C4_AttemptOrder ==
    /\ \A i \in 1 .. Len(solves) :
        /\ <<solves[i][1], solves[i][2]>> = ExpectedAttempt(i, data_days)
        /\ solves[i][2] >= 1
    /\ \A i \in 1 .. Len(solves) - 1 : solves[i][3] \notin Success
    /\ (Len(solves) >= 1 /\ LastResult \in Success) =>
        /\ pc \in {"extract", "done"}
        /\ status_code = LastResult
        /\ days = solves[Len(solves)][2]
        /\ pc = "done" =>
            /\ response.status = LastResult
            /\ \A p \in Entries : EntryDay(p) < solves[Len(solves)][2]

\* a request for 3 days answered by the fourth solve, prob3 over 1 day
C4_Witness ==
    /\ Returned
    /\ data_days = 3
    /\ Len(solves) = 4
    /\ solves[4] = <<"prob3", 1, "Feasible">>
    /\ Len(response.schedule) = 1

\* C5: when every solve answered a non-success status, the request ends after
\* at most days+1 solves with status exactly Infeasible, a message and no
\* schedule.
C5_ExhaustedIsInfeasible ==
    (pc = "done" /\ \A i \in 1 .. Len(solves) :
                        solves[i][3] \notin Success \cup {"raised"}) =>
        /\ Len(solves) <= data_days + 1
        /\ response.status = "Infeasible"
        /\ "message" \in DOMAIN response
        /\ "schedule" \notin DOMAIN response

\* C6: a solve() that raises ends the request at once with status Error and
\* a message, without a schedule and without another solve; a solve is
\* retried only after a non-success status.
C6_SolverErrorIsFatal ==
    /\ \A i \in 1 .. Len(solves) :
        solves[i][3] = "raised" =>
            /\ i = Len(solves)
            /\ pc = "done"
            /\ response.status = "Error"
            /\ "message" \in DOMAIN response
            /\ "schedule" \notin DOMAIN response
    /\ \A i \in 1 .. Len(solves) - 1 : solves[i][3] \notin Success \cup {"raised"}

\* the solver raised in the loop over reduced_days
C6_Witness ==
    /\ pc = "done"
    /\ Len(solves) >= 3
    /\ LastProblem = "prob3"
    /\ LastResult = "raised"
    /\ response.status = "Error"

\* the request is valid: no negative quantity, amount or expiry weight
ValidInput ==
    /\ \A i \in DOMAIN inventory :
        AvailableQty(inventory[i]) >= 0 /\ ExpiryWeightOf(inventory[i]) >= 0
    /\ \A j \in DOMAIN recipes : \A i \in DOMAIN recipes[j].ingredients :
        recipes[j].ingredients[i] >= 0

\* the slots of day d that assignment a fills
FilledOn(a, d) == {m \in MealSet : \E id \in RecipeIds : a[<<d, m, id>>] = 1}

\* the number of slots a fills over h days
FilledCount(h, a) ==
    SumF([d \in 0 .. h - 1 |-> Cardinality(FilledOn(a, d))], 0 .. h - 1)

\* the status an exact solver answers for a problem with feasible set F
ExactStatus(F) == IF F = {} THEN "Infeasible" ELSE "Optimal"

\* C7: every assignment that satisfies the constraints of prob (with
\* anti-repetition) satisfies those of prob2 (without); so when prob is
\* feasible prob2 is, and an exact solver that answers Optimal for prob
\* answers Optimal for prob2.
C7_MonotonicRelaxation ==
    pc = "full" =>
        /\ \A a \in FullFeasible : RelaxedConstraints(a)
        /\ ExactStatus(FullFeasible) = "Optimal" =>
                ExactStatus(RelaxedFeasible) = "Optimal"

\* prob is feasible with a filled slot and prob2 admits strictly more
C7_Witness ==
    /\ pc = "full"
    /\ \E a \in FullFeasible : FilledCount(days, a) >= 2
    /\ \E a \in RelaxedFeasible : ~FullConstraints(a)

\* a solve has just answered Optimal: x is a maximizer of the problem solved
AnsweredOptimal == pc = "extract" /\ status_code = "Optimal"

\* the constraints of the problem whose solve() was the last one called
LastConstraints(a) ==
    IF LastProblem = "prob" THEN FullConstraints(a)
    ELSE IF LastProblem = "prob2" THEN RelaxedConstraints(a)
    ELSE ReducedConstraints(days, a)

LastFeasible == {a \in Assignments(days) : LastConstraints(a)}

\* C8: for valid input and a horizon of at least 2 days, every assignment
\* that maximizes the objective under the constraints (whichever of prob,
\* prob2, prob3 was solved) fills at least as many slots on day 0 as on the
\* last day.
C8_DayPriority ==
    (AnsweredOptimal /\ ValidInput /\ days >= 2) =>
        Cardinality(FilledOn(x, 0)) >= Cardinality(FilledOn(x, days - 1))

\* inventory lets prob2 fill a slot of day 0 or one of the last day but not
\* both, and the maximizer fills the one of day 0
C8_Witness ==
    /\ AnsweredOptimal /\ ValidInput /\ days >= 2
    /\ LastProblem = "prob2"
    /\ FilledOn(x, 0) # {} /\ FilledOn(x, days - 1) = {}
    /\ \E b \in RelaxedFeasible : FilledOn(b, days - 1) # {}
    /\ \A b \in RelaxedFeasible : FilledOn(b, 0) = {} \/ FilledOn(b, days - 1) = {}

\* the largest number of slots an assignment of F fills
MaxFill(h, F) ==
    CHOOSE n \in {FilledCount(h, a) : a \in F} : \A b \in F : FilledCount(h, b) <= n

\* C9 as stated: for valid input every maximizer of the objective fills the
\* largest number of slots that any assignment satisfying the constraints fills.
C9_MaximizersFillMost ==
    (AnsweredOptimal /\ ValidInput) =>
        FilledCount(days, x) = MaxFill(days, LastFeasible)

\* C9 as amended: for valid input every maximizer is maximal: no variable
\* that is 0 can be set to 1, the others kept, without breaking a constraint
\* of the problem solved.
C9_MaximizersAreMaximal ==
    (AnsweredOptimal /\ ValidInput) =>
        \A k \in Keys(days) : x[k] = 0 => ~LastConstraints([x EXCEPT ![k] = 1])

\* a maximizer of prob that fills a slot, and fewer slots than prob allows
C9_Witness ==
    /\ AnsweredOptimal /\ ValidInput
    /\ LastProblem = "prob"
    /\ FilledCount(days, x) >= 1
    /\ FilledCount(days, x) < MaxFill(days, FullFeasible)

\* the scenario: eggs {qty 2, expiry_weight 5}, recipe 0 with {eggs: 1},
\* days = 2, meals = [Breakfast]
Scenario ==
    /\ inventory = ("eggs" :> [qty |-> 2, expiry_weight |-> 5])
    /\ recipes = <<[id |-> 0, ingredients |-> ("eggs" :> 1)]>>
    /\ data_days = 2
    /\ meals = <<"Breakfast">>

Omelet(d) == [day |-> DayLabel(d), meals |-> <<[type |-> "Breakfast", recipeId |-> 0]>>]

MealIndex(m) == CHOOSE i \in DOMAIN meals : meals[i] = m

\* the day indices below H on which some variable of x is 1
AssignedDays(H) == {d \in 0 .. H - 1 : FilledOn(x, d) # {}}

\* C11: the schedule returned after a successful solve over H days has one
\* entry for exactly the day indices below H with a variable equal to 1, in
\* increasing order and labelled "Day d+1"; an entry lists, in the caller's
\* meal order, one {type, recipeId} for exactly the meal types of that day
\* with a variable equal to 1, recipeId being the first recipe in catalog
\* order whose variable is 1; days without an assigned meal are left out.
C11_Extraction ==
    Returned =>
        LET sched == response.schedule
        IN  /\ {sched[i].day : i \in DOMAIN sched}
                  = {<<"Day", d + 1>> : d \in AssignedDays(days)}
            /\ Len(sched) = Cardinality(AssignedDays(days))
            /\ \A i \in DOMAIN sched : \A j \in DOMAIN sched :
                  i < j => sched[i].day[2] < sched[j].day[2]
            /\ \A i \in DOMAIN sched :
                  LET d == sched[i].day[2] - 1
                      ms == sched[i].meals
                  IN  /\ Len(ms) >= 1
                      /\ {ms[j].type : j \in DOMAIN ms} = FilledOn(x, d)
                      /\ \A j \in DOMAIN ms : \A l \in DOMAIN ms :
                            j < l => MealIndex(ms[j].type) < MealIndex(ms[l].type)
                      /\ \A j \in DOMAIN ms :
                            \E c \in DOMAIN recipes :
                                /\ ms[j].recipeId = recipes[c].id
                                /\ x[<<d, ms[j].type, recipes[c].id>>] = 1
                                /\ \A b \in 1 .. c - 1 :
                                      x[<<d, ms[j].type, recipes[b].id>>] # 1

\* a schedule without day 0, whose only entry is Day 2 with Lunch alone
C11_Witness ==
    /\ Returned
    /\ days = 2
    /\ Len(meals) = 2
    /\ Len(recipes) = 2
    /\ Len(response.schedule) = 1
    /\ response.schedule[1].day = <<"Day", 2>>
    /\ Len(response.schedule[1].meals) = 1
    /\ response.schedule[1].meals[1].type = "Lunch"
    /\ response.schedule[1].meals[1].recipeId = 1

\* no inventory item has a negative quantity
QtyNonNegative == \A i \in DOMAIN inventory : AvailableQty(inventory[i]) >= 0

\* the assignment that leaves every slot of h days empty
EmptyAssignment(h) == [k \in Keys(h) |-> 0]

\* no recipe in the same meal type on two consecutive days of the schedule
ScheduleAntiRepetition ==
    \A p \in Entries : \A q \in Entries :
        (EntryDay(q) = EntryDay(p) + 1
            /\ response.schedule[p[1]].meals[p[2]].type
                 = response.schedule[q[1]].meals[q[2]].type) =>
            response.schedule[p[1]].meals[p[2]].recipeId
                # response.schedule[q[1]].meals[q[2]].recipeId

====
